---- MODULE Spec2Model ----
(***************************************************************************)
(* A model of app.py: the Gherkin scenario pipeline (split_scenarios,      *)
(* is_valid_scenario, is_happy_path, contains_known_actions,               *)
(* validate_and_select_happy), the feature-file text built by the button   *)
(* handler, and the handler's control flow around call_llm.                *)
(*                                                                         *)
(* A Python str is a sequence of one-character strings, so that strip(),   *)
(* splitlines(), lower(), "in" and startswith() are computed character by  *)
(* character, as Python computes them.                                     *)
(***************************************************************************)
EXTENDS Integers, Sequences, FiniteSets, TLC

VARIABLES requirements_text, stage, gherkin_text, result, feature_content,
          error_shown, warning_shown, download_offered, llm_calls, clicks

vars == <<requirements_text, stage, gherkin_text, result, feature_content,
          error_shown, warning_shown, download_offered, llm_calls, clicks>>

(***************************************************************************)
(* Bounds of the model.                                                    *)
(***************************************************************************)
\* An input text of the pipeline is the concatenation of at most MaxFrags
\* fragments of Vocabulary.
MaxFrags == 3

\* The number of clicks on the generate button that a behaviour follows.
MaxClicks == 3

(***************************************************************************)
(* Characters and the str methods the program uses.                        *)
(***************************************************************************)
LF == "\n"

CR == "\r"

\* The characters str.strip() removes, among those of the model's alphabet.
Whitespace == {" ", "\t", LF, CR}

\* The characters str.splitlines() breaks a line at ("\r\n" is one break).
LineBreaks == {LF, CR}

UpperCase ==
    <<"A","B","C","D","E","F","G","H","I","J","K","L","M","N","O","P","Q","R","S","T","U","V",
      "W","X","Y","Z">>

LowerCase ==
    <<"a","b","c","d","e","f","g","h","i","j","k","l","m","n","o","p","q","r","s","t","u","v",
      "w","x","y","z">>

LowerChar(c) ==
    IF \E i \in 1..Len(UpperCase) : UpperCase[i] = c
    THEN LowerCase[CHOOSE i \in 1..Len(UpperCase) : UpperCase[i] = c]
    ELSE c

\* str.lower()
lower(text) == [i \in 1..Len(text) |-> LowerChar(text[i])]

\* str.lstrip()
lstrip(text) ==
    IF \A i \in 1..Len(text) : text[i] \in Whitespace
    THEN <<>>
    ELSE LET first == CHOOSE i \in 1..Len(text) :
                          /\ text[i] \notin Whitespace
                          /\ \A j \in 1..(i - 1) : text[j] \in Whitespace
         IN  SubSeq(text, first, Len(text))

\* str.rstrip()
rstrip(text) ==
    IF \A i \in 1..Len(text) : text[i] \in Whitespace
    THEN <<>>
    ELSE LET last == CHOOSE i \in 1..Len(text) :
                         /\ text[i] \notin Whitespace
                         /\ \A j \in (i + 1)..Len(text) : text[j] \in Whitespace
         IN  SubSeq(text, 1, last)

\* str.strip()
strip(text) == rstrip(lstrip(text))

\* str.startswith(prefix)
startswith(text, prefix) ==
    /\ Len(prefix) <= Len(text)
    /\ SubSeq(text, 1, Len(prefix)) = prefix

\* The operator "k in text" on two strs: k is a substring of text.
contains(text, k) ==
    \E i \in 1..(Len(text) - Len(k) + 1) : SubSeq(text, i, i + Len(k) - 1) = k

\* str.splitlines(). A break starts at a line-break character that is not the
\* "\n" of a "\r\n"; a break ends a line, empty or not; the text's end ends a line
\* only when characters follow the last break.
BreakStarts(text) ==
    {i \in 1..Len(text) :
        /\ text[i] \in LineBreaks
        /\ ~(text[i] = LF /\ i > 1 /\ text[i - 1] = CR)}

BreakEnd(text, i) ==
    IF text[i] = CR /\ i < Len(text) /\ text[i + 1] = LF THEN i + 1 ELSE i

splitlines(text) ==
    LET starts == BreakStarts(text)
        n == Cardinality(starts)
        break[k \in 1..n] ==
            CHOOSE p \in starts : Cardinality({q \in starts : q < p}) = k - 1
        from(k) == IF k = 1 THEN 1 ELSE BreakEnd(text, break[k - 1]) + 1
        ended == [k \in 1..n |-> SubSeq(text, from(k), break[k] - 1)]
    IN  IF from(n + 1) <= Len(text)
        THEN Append(ended, SubSeq(text, from(n + 1), Len(text)))
        ELSE ended

\* sep.join(lines)
RECURSIVE join(_, _)
join(sep, lines) ==
    IF lines = <<>> THEN <<>>
    ELSE IF Len(lines) = 1 THEN lines[1]
    ELSE lines[1] \o sep \o join(sep, Tail(lines))

(***************************************************************************)
(* The program's string constants.                                         *)
(***************************************************************************)
MARKER ==
    <<"S","c","e","n","a","r","i","o",":">>

NEEDED_GIVEN ==
    <<"G","i","v","e","n">>

NEEDED_WHEN ==
    <<"W","h","e","n">>

NEEDED_THEN ==
    <<"T","h","e","n">>

KW_LOGIN ==
    <<"l","o","g","i","n">>

KW_SUBMIT ==
    <<"s","u","b","m","i","t">>

KW_APPROVE ==
    <<"a","p","p","r","o","v","e">>

HAPPY_PATH ==
    <<"h","a","p","p","y"," ","p","a","t","h">>

SUCCESS ==
    <<"s","u","c","c","e","s","s">>

VALID ==
    <<"v","a","l","i","d">>

INDENT ==
    <<" "," ">>

feature_header ==
    <<"F","e","a","t","u","r","e",":"," ","L","L","M"," ","g","e","n","e","r","a","t","e","d",
      " ","l","o","g","i","n"," ","f","l","o","w","s","\n"," "," ","A","s"," ","a"," ","u","s",
      "e","r"," ","o","f"," ","t","h","e"," ","s","a","m","p","l","e"," ","w","e","b"," ","a",
      "p","p","\n"," "," ","I"," ","w","a","n","t"," ","t","o"," ","l","o","g","i","n"," ","a",
      "n","d"," ","a","c","c","e","s","s"," ","t","h","e"," ","d","a","s","h","b","o","a","r",
      "d","\n"," "," ","S","o"," ","t","h","a","t"," ","I"," ","c","a","n"," ","u","s","e"," ",
      "t","h","e"," ","a","p","p","l","i","c","a","t","i","o","n"," ","f","e","a","t","u","r",
      "e","s","\n","\n">>

default_reqs ==
    <<"T","h","e"," ","s","y","s","t","e","m"," ","m","u","s","t"," ","a","l","l","o","w"," ",
      "a"," ","r","e","g","i","s","t","e","r","e","d"," ","u","s","e","r"," ","t","o"," ","l",
      "o","g"," ","i","n"," ","w","i","t","h"," ","a"," ","v","a","l","i","d"," ","e","m","a",
      "i","l"," ","a","n","d"," ","p","a","s","s","w","o","r","d","\n","a","n","d"," ","r","e",
      "d","i","r","e","c","t"," ","t","o"," ","a"," ","d","a","s","h","b","o","a","r","d"," ",
      "o","n"," ","s","u","c","c","e","s","s","."," ","I","f"," ","c","r","e","d","e","n","t",
      "i","a","l","s"," ","a","r","e"," ","i","n","v","a","l","i","d",","," ","a","n"," ","e",
      "r","r","o","r"," ","m","e","s","s","a","g","e","\n","m","u","s","t"," ","b","e"," ","d",
      "i","s","p","l","a","y","e","d"," ","a","n","d"," ","t","h","e"," ","u","s","e","r"," ",
      "m","u","s","t"," ","r","e","m","a","i","n"," ","o","n"," ","t","h","e"," ","l","o","g",
      "i","n"," ","p","a","g","e",".","\n">>

HAPPY_KEYWORDS == <<KW_LOGIN, KW_SUBMIT, KW_APPROVE>>

(***************************************************************************)
(* split_scenarios                                                         *)
(***************************************************************************)
\* A faulty test of the loop: "Scenario:" in line
IsMarkerLineAnywhere(line) == contains(line, MARKER)

\* The test of the loop: line.strip().startswith("Scenario:")
IsMarkerLine(line) == startswith(strip(line), MARKER)

\* A faulty block: "\n".join(current), the strip() forgotten
BlockTextUntrimmed(current) == join(<<LF>>, current)

\* A block as it is appended to blocks: "\n".join(current).strip()
BlockText(current) == strip(join(<<LF>>, current))

\* The for loop over the lines: blocks and current after lines i.. are read.
RECURSIVE SplitLoop(_, _, _, _)
SplitLoop(lines, i, blocks, current) ==
    IF i > Len(lines)
    THEN [blocks |-> blocks, current |-> current]
    ELSE IF IsMarkerLine(lines[i]) /\ current # <<>>
    THEN SplitLoop(lines, i + 1, Append(blocks, BlockText(current)), <<lines[i]>>)
    ELSE SplitLoop(lines, i + 1, blocks, Append(current, lines[i]))

\* A faulty split_scenarios: the append after the loop forgotten
split_scenarios_no_final_block(text) ==
    SplitLoop(splitlines(text), 1, <<>>, <<>>).blocks

split_scenarios(text) ==
    LET after == SplitLoop(splitlines(text), 1, <<>>, <<>>)
    IN  IF after.current # <<>>
        THEN Append(after.blocks, BlockText(after.current))
        ELSE after.blocks

(***************************************************************************)
(* The predicates on a block                                               *)
(***************************************************************************)
\* A faulty is_valid_scenario: any() for all()
is_valid_scenario_any(text) ==
    \E i \in 1..3 : contains(text, <<NEEDED_GIVEN, NEEDED_WHEN, NEEDED_THEN>>[i])

is_valid_scenario(text) ==
    LET needed == <<NEEDED_GIVEN, NEEDED_WHEN, NEEDED_THEN>>
    IN  \A i \in 1..Len(needed) : contains(text, needed[i])

\* A faulty is_happy_path: "success" or "valid"
is_happy_path_either(text) ==
    LET low == lower(text)
    IN  contains(low, HAPPY_PATH) \/ (contains(low, SUCCESS) \/ contains(low, VALID))

is_happy_path(text) ==
    LET low == lower(text)
    IN  contains(low, HAPPY_PATH) \/ (contains(low, SUCCESS) /\ contains(low, VALID))

contains_known_actions(text) ==
    LET low == lower(text)
    IN  \E i \in 1..Len(HAPPY_KEYWORDS) : contains(low, HAPPY_KEYWORDS[i])

\* A faulty condition: or for and
SelectsHappyEither(s) == contains_known_actions(s) \/ is_happy_path(s)

\* The condition of the comprehension that builds happy.
SelectsHappy(s) == contains_known_actions(s) /\ is_happy_path(s)

\* all(contains_known_actions(s) for s in happy)
HasRequiredActions(happy) ==
    \A i \in 1..Len(happy) : contains_known_actions(happy[i])

(***************************************************************************)
(* validate_and_select_happy                                               *)
(***************************************************************************)
Summary(all_scenarios, valid, happy) ==
    [total |-> Len(all_scenarios),
     valid |-> Len(valid),
     happy |-> Len(happy),
     has_required_actions |-> HasRequiredActions(happy)]

\* A faulty validate_and_select_happy: happy selected from all_scenarios
validate_and_select_happy_from_all(text) ==
    LET all_scenarios == split_scenarios(text)
        valid == SelectSeq(all_scenarios, is_valid_scenario)
        happy == SelectSeq(all_scenarios, SelectsHappy)
    IN  [all |-> all_scenarios, valid |-> valid, happy |-> happy,
         summary |-> Summary(all_scenarios, valid, happy)]

validate_and_select_happy(text) ==
    LET all_scenarios == split_scenarios(text)
        valid == SelectSeq(all_scenarios, is_valid_scenario)
        happy == SelectSeq(valid, SelectsHappy)
    IN  [all |-> all_scenarios, valid |-> valid, happy |-> happy,
         summary |-> Summary(all_scenarios, valid, happy)]

(***************************************************************************)
(* The feature file of the button handler                                  *)
(***************************************************************************)
\* A faulty indentation: "  " + line for every line
IndentLineAlways(line) == INDENT \o line

\* "  " + line if line.strip() else ""
IndentLine(line) == IF strip(line) # <<>> THEN INDENT \o line ELSE <<>>

\* A faulty pass of the loop: "\n" added for "\n\n"
RenderBlockOneBreak(s) ==
    LET ls == splitlines(s)
    IN  join(<<LF>>, [i \in 1..Len(ls) |-> IndentLine(ls[i])]) \o <<LF>>

\* What one pass of the loop over result["happy"] adds to feature_body.
RenderBlock(s) ==
    LET ls == splitlines(s)
    IN  join(<<LF>>, [i \in 1..Len(ls) |-> IndentLine(ls[i])]) \o <<LF, LF>>

RECURSIVE FeatureBody(_)
FeatureBody(happy) ==
    IF happy = <<>> THEN <<>>
    ELSE RenderBlock(happy[1]) \o FeatureBody(Tail(happy))

FeatureContent(happy) == feature_header \o FeatureBody(happy)

(***************************************************************************)
(* Inputs                                                                  *)
(***************************************************************************)
FragSteps ==
    <<"S","c","e","n","a","r","i","o",":"," ","G","i","v","e","n"," ","W","h","e","n"," ","T",
      "h","e","n","\n">>

FragLowerSteps ==
    <<"g","i","v","e","n"," ","w","h","e","n"," ","t","h","e","n">>

FragAction ==
    <<"L","o","g","i","n">>

FragHappyPath ==
    <<"H","a","p","p","y"," ","P","a","t","h">>

FragSuccess ==
    <<"s","u","c","c","e","s","s">>

FragInvalid ==
    <<"I","n","v","a","l","i","d">>

FragBlock ==
    <<"S","c","e","n","a","r","i","o",":"," ","G","i","v","e","n"," ","a"," ","u","s","e","r",
      "\n","\n","W","h","e","n"," ","t","h","e","y"," ","A","p","p","r","o","v","e","\n"," ",
      "\n","T","h","e","n"," ","h","a","p","p","y"," ","p","a","t","h","\n">>

ExampleText ==
    <<"F","e","a","t","u","r","e",":"," ","L","o","g","i","n","\n","S","c","e","n","a","r","i",
      "o",":"," ","S","u","c","c","e","s","s","f","u","l"," ","l","o","g","i","n","\n","G","i",
      "v","e","n"," ","a"," ","v","a","l","i","d"," ","u","s","e","r","\n","W","h","e","n"," ",
      "t","h","e","y"," ","s","u","b","m","i","t"," ","v","a","l","i","d"," ","c","r","e","d",
      "e","n","t","i","a","l","s","\n","T","h","e","n"," ","t","h","e","y"," ","r","e","a","c",
      "h"," ","t","h","e"," ","d","a","s","h","b","o","a","r","d"," ","a","n","d"," ","s","e",
      "e"," ","a"," ","s","u","c","c","e","s","s"," ","m","e","s","s","a","g","e","\n","S","c",
      "e","n","a","r","i","o",":"," ","I","n","v","a","l","i","d"," ","l","o","g","i","n","\n",
      "G","i","v","e","n"," ","a"," ","u","s","e","r","\n","W","h","e","n"," ","t","h","e","y",
      " ","s","u","b","m","i","t">>

ReqLogin ==
    <<"U","s","e","r","s"," ","l","o","g"," ","i","n">>

ReqPadded ==
    <<" ","\t","l","o","g","i","n","\n">>

RawHappy ==
    <<" ","S","c","e","n","a","r","i","o",":"," ","L","o","g","i","n","\n","G","i","v","e","n",
      " ","a"," ","v","a","l","i","d"," ","u","s","e","r","\n","W","h","e","n"," ","t","h","e",
      "y"," ","s","u","b","m","i","t","\n","T","h","e","n"," ","s","u","c","c","e","s","s","\n">>

RawProse ==
    <<"S","o","r","r","y",","," ","n","o"," ","s","c","e","n","a","r","i","o","s",".">>

\* The pieces the input texts of the pipeline are made of: the marker, line
\* breaks, a space, step keywords in both cases, an action keyword, the success
\* signals, and a whole happy block with a blank and a whitespace-only line in it.
Vocabulary ==
    {MARKER, <<LF>>, <<CR>>, <<" ">>, FragSteps, FragLowerSteps, FragAction,
     FragHappyPath, FragSuccess, FragInvalid, FragBlock}

TextsOfLen[n \in Nat] ==
    IF n = 0 THEN {<<>>}
    ELSE {t \o f : t \in TextsOfLen[n - 1], f \in Vocabulary}

\* The texts split_scenarios and validate_and_select_happy are applied to.
Texts == UNION {TextsOfLen[n] : n \in 0..MaxFrags} \cup {ExampleText}

\* What the user may type into the text area.
Requirements ==
    {<<>>, <<" ">>, <<" ", LF, "\t">>, ReqLogin, ReqPadded, default_reqs}

\* What response.text may be when the backend answers.
Responses ==
    {<<>>, <<LF>>, RawHappy, RawProse, ExampleText, FragBlock \o FragBlock}

NoResult ==
    [all |-> <<>>, valid |-> <<>>, happy |-> <<>>,
     summary |-> [total |-> 0, valid |-> 0, happy |-> 0, has_required_actions |-> TRUE]]

(***************************************************************************)
(* The button handler                                                      *)
(***************************************************************************)
\* A faulty test: not requirements_text
IsBlankUnstripped(text) == text = <<>>

\* not requirements_text.strip()
IsBlank(text) == strip(text) = <<>>

\* call_llm's return value for the backend's response.text
call_llm(response_text) == strip(response_text)

Init ==
    /\ requirements_text = default_reqs
    /\ stage = "idle"
    /\ gherkin_text = <<>>
    /\ result = NoResult
    /\ feature_content = <<>>
    /\ error_shown = FALSE
    /\ warning_shown = FALSE
    /\ download_offered = FALSE
    /\ llm_calls = 0
    /\ clicks = 0

\* The user edits the text area: the script reruns with the button not pressed,
\* so nothing of the previous run stays on the page.
EditRequirements(text) ==
    /\ requirements_text' = text
    /\ stage' = "idle"
    /\ gherkin_text' = <<>>
    /\ result' = NoResult
    /\ feature_content' = <<>>
    /\ error_shown' = FALSE
    /\ warning_shown' = FALSE
    /\ download_offered' = FALSE
    /\ UNCHANGED <<llm_calls, clicks>>

\* A click with blank requirements: st.error, and nothing else runs.
GenerateRejected ==
    /\ clicks < MaxClicks
    /\ IsBlank(requirements_text)
    /\ clicks' = clicks + 1
    /\ stage' = "rejected"
    /\ error_shown' = TRUE
    /\ gherkin_text' = <<>>
    /\ result' = NoResult
    /\ feature_content' = <<>>
    /\ warning_shown' = FALSE
    /\ download_offered' = FALSE
    /\ UNCHANGED <<requirements_text, llm_calls>>

\* A click with requirements, the backend answering response_text: the whole
\* else branch, from call_llm to st.download_button.
GenerateAnswered(response_text) ==
    /\ clicks < MaxClicks
    /\ ~IsBlank(requirements_text)
    /\ clicks' = clicks + 1
    /\ llm_calls' = llm_calls + 1
    /\ gherkin_text' = call_llm(response_text)
    /\ result' = validate_and_select_happy(gherkin_text')
    /\ warning_shown' = (result'.happy = <<>>)
    /\ feature_content' = FeatureContent(result'.happy)
    /\ download_offered' = TRUE
    /\ error_shown' = FALSE
    /\ stage' = "rendered"
    /\ UNCHANGED requirements_text

\* A click with requirements, generate_content raising: the exception leaves
\* the handler, nothing is assigned or shown.
GenerateFailed ==
    /\ clicks < MaxClicks
    /\ ~IsBlank(requirements_text)
    /\ clicks' = clicks + 1
    /\ llm_calls' = llm_calls + 1
    /\ stage' = "failed"
    /\ gherkin_text' = <<>>
    /\ result' = NoResult
    /\ feature_content' = <<>>
    /\ error_shown' = FALSE
    /\ warning_shown' = FALSE
    /\ download_offered' = FALSE
    /\ UNCHANGED requirements_text

Edit == \E text \in Requirements : EditRequirements(text)

Answered == \E response_text \in Responses : GenerateAnswered(response_text)

Next ==
    \/ Edit
    \/ GenerateRejected
    \/ Answered
    \/ GenerateFailed

Spec == Init /\ [][Next]_vars

(***************************************************************************)
(* The pipeline applied to every text of Texts, one function at a time.    *)
(***************************************************************************)
InitPipeline ==
    /\ gherkin_text \in Texts
    /\ stage = "input"
    /\ result = NoResult
    /\ feature_content = <<>>
    /\ requirements_text = <<>>
    /\ error_shown = FALSE
    /\ warning_shown = FALSE
    /\ download_offered = FALSE
    /\ llm_calls = 0
    /\ clicks = 0

\* result = validate_and_select_happy(gherkin_text)
Process ==
    /\ stage = "input"
    /\ result' = validate_and_select_happy(gherkin_text)
    /\ stage' = "processed"
    /\ UNCHANGED <<requirements_text, gherkin_text, feature_content, error_shown,
                   warning_shown, download_offered, llm_calls, clicks>>

\* feature_content = feature_header + feature_body
Render ==
    /\ stage = "processed"
    /\ feature_content' = FeatureContent(result.happy)
    /\ warning_shown' = (result.happy = <<>>)
    /\ download_offered' = TRUE
    /\ stage' = "rendered"
    /\ UNCHANGED <<requirements_text, gherkin_text, result, error_shown,
                   llm_calls, clicks>>

NextPipeline ==
    \/ Process
    \/ Render

SpecPipeline == InitPipeline /\ [][NextPipeline]_vars

(***************************************************************************)
(* Vocabulary of the properties                                            *)
(***************************************************************************)
Processed == stage \in {"processed", "rendered"}

IsBlankLine(line) == \A i \in 1..Len(line) : line[i] \in Whitespace

IsNonBlankLine(line) == ~IsBlankLine(line)

StripEach(lines) == [i \in 1..Len(lines) |-> strip(lines[i])]

\* The lines of the blocks, block after block.
RECURSIVE BlockLines(_)
BlockLines(blocks) ==
    IF blocks = <<>> THEN <<>>
    ELSE splitlines(blocks[1]) \o BlockLines(Tail(blocks))

\* a is b with some of its elements left out.
RECURSIVE IsSubseq(_, _)
IsSubseq(a, b) ==
    IF a = <<>> THEN TRUE
    ELSE IF b = <<>> THEN FALSE
    ELSE IF a[1] = b[1] THEN IsSubseq(Tail(a), Tail(b))
    ELSE IsSubseq(a, Tail(b))

InSeq(x, s) == \E i \in 1..Len(s) : s[i] = x

HasMarkerLine(text) ==
    LET ls == splitlines(text)
    IN  \E i \in 1..Len(ls) : startswith(strip(ls[i]), MARKER)

\* The text with each line break ("\r\n", "\r", "\n") written as "\n".
NormaliseBreaks(text) ==
    LET Kept(i) == ~(text[i] = LF /\ i > 1 /\ text[i - 1] = CR)
        kept == SelectSeq([i \in 1..Len(text) |-> i], Kept)
    IN  [k \in 1..Len(kept) |-> IF text[kept[k]] = CR THEN LF ELSE text[kept[k]]]

ContentLines == splitlines(feature_content)

RECURSIVE LineCount(_, _)
LineCount(blocks, k) ==
    IF k = 0 THEN 0 ELSE Len(splitlines(blocks[k])) + LineCount(blocks, k - 1)

\* Where block k of happy starts among the content's lines when gap blank lines
\* come before each block.
BlockStart(k, gap) ==
    Len(splitlines(strip(feature_header))) + LineCount(result.happy, k - 1) + k * gap + 1

\* Exactly gap blank lines stand before each block of happy, after the header's
\* last line or the block before.
SeparatedBy(gap) ==
    \A k \in 1..Len(result.happy) :
        LET start == BlockStart(k, gap)
        IN  /\ start <= Len(ContentLines)
            /\ IsNonBlankLine(ContentLines[start])
            /\ \A d \in 1..gap : IsBlankLine(ContentLines[start - d])
            /\ IsNonBlankLine(ContentLines[start - gap - 1])

\* The lines one block gives the feature file, and the empty line after it.
ExpectedBlockLines(s) ==
    LET ls == splitlines(s)
    IN  [i \in 1..Len(ls) |-> IF IsBlankLine(ls[i]) THEN <<>> ELSE <<" ", " ">> \o ls[i]]
        \o << <<>> >>

RECURSIVE ExpectedBodyLines(_)
ExpectedBodyLines(happy) ==
    IF happy = <<>> THEN <<>>
    ELSE ExpectedBlockLines(happy[1]) \o ExpectedBodyLines(Tail(happy))

(***************************************************************************)
(* The properties                                                          *)
(***************************************************************************)

\* C1 (as stated): on the example text split_scenarios finds 2 blocks and the
\* summary is total = 2, valid = 1, happy = 1.
C1_ExampleTwoBlocks ==
    (Processed /\ gherkin_text = ExampleText) =>
        /\ Len(result.all) = 2
        /\ result.summary.total = 2
        /\ result.summary.valid = 1
        /\ result.summary.happy = 1

\* C1 (amended): on the example text split_scenarios finds 3 blocks, the preamble
\* "Feature: Login" and the two scenarios, and the summary is total = 3,
\* valid = 1, happy = 1, the happy block being the first scenario.
C1_ExampleThreeBlocks ==
    (Processed /\ gherkin_text = ExampleText) =>
        /\ Len(result.all) = 3
        /\ result.all[1] = SubSeq(ExampleText, 1, 14)
        /\ result.summary.total = 3
        /\ result.summary.valid = 1
        /\ result.summary.happy = 1
        /\ result.happy = <<result.all[2]>>

C1_Witness == stage = "processed" /\ gherkin_text = ExampleText

\* C2: every block of split_scenarios but the first begins with a line whose
\* trimmed content starts with "Scenario:".
C2_BlocksBeginAtMarker ==
    Processed =>
        \A i \in 2..Len(result.all) :
            LET ls == splitlines(result.all[i])
            IN  ls # <<>> /\ startswith(strip(ls[1]), MARKER)

\* A preamble followed by at least two scenario blocks.
C2_Witness ==
    /\ stage = "processed"
    /\ Len(result.all) >= 3
    /\ ~startswith(result.all[1], MARKER)

C4_OneBlockIsTrimmedInput ==
    (Processed /\ ~HasMarkerLine(gherkin_text)) =>
        result.all = IF gherkin_text = <<>> THEN <<>> ELSE <<strip(gherkin_text)>>

\* C4 (amended): split_scenarios gives no block for the empty text and, for a
\* text with no marker line, one block equal to the text with each line break
\* written as "\n", trimmed.
C4_OneBlockIsNormalisedInput ==
    (Processed /\ ~HasMarkerLine(gherkin_text)) =>
        result.all = IF gherkin_text = <<>> THEN <<>>
                     ELSE <<strip(NormaliseBreaks(gherkin_text))>>

\* A text of two lines with a "\r" between them and no marker.
C4_Witness ==
    /\ stage = "processed"
    /\ ~HasMarkerLine(gherkin_text)
    /\ \E i \in 2..(Len(gherkin_text) - 1) :
           /\ gherkin_text[i] = CR
           /\ gherkin_text[i - 1] \notin Whitespace
           /\ gherkin_text[i + 1] \notin Whitespace
    /\ Len(result.all) = 1

\* C5: valid is a subsequence of all and happy a subsequence of valid, and the
\* summary's counts are the three lengths.
C5_Subsequences ==
    Processed =>
        /\ IsSubseq(result.valid, result.all)
        /\ IsSubseq(result.happy, result.valid)
        /\ Len(result.happy) <= Len(result.valid)
        /\ Len(result.valid) <= Len(result.all)
        /\ result.summary.total = Len(result.all)
        /\ result.summary.valid = Len(result.valid)
        /\ result.summary.happy = Len(result.happy)

\* A happy block, a valid block that is not happy and a block that is not valid.
C5_Witness ==
    /\ stage = "processed"
    /\ 1 <= Len(result.happy)
    /\ Len(result.happy) < Len(result.valid)
    /\ Len(result.valid) < Len(result.all)

\* C6: every block of happy contains login, submit or approve in some case, and
\* has_required_actions is true.
C6_HappyHasAction ==
    Processed =>
        /\ \A i \in 1..Len(result.happy) :
               \E k \in {KW_LOGIN, KW_SUBMIT, KW_APPROVE} :
                   contains(lower(result.happy[i]), k)
        /\ result.summary.has_required_actions = TRUE

\* A happy block beside a valid block with a success signal and no action.
C6_Witness ==
    /\ stage = "processed"
    /\ result.happy # <<>>
    /\ \E i \in 1..Len(result.valid) :
           /\ contains(lower(result.valid[i]), HAPPY_PATH)
           /\ ~InSeq(result.valid[i], result.happy)

\* C7: a block of all is in happy exactly when it contains Given, When and Then,
\* and in lower case one of login, submit, approve, and in lower case
\* "happy path" or both "success" and "valid".
C7_HappyIff ==
    Processed =>
        \A i \in 1..Len(result.all) :
            LET block == result.all[i]
                low == lower(block)
            IN  InSeq(block, result.happy) <=>
                    /\ contains(block, NEEDED_GIVEN)
                    /\ contains(block, NEEDED_WHEN)
                    /\ contains(block, NEEDED_THEN)
                    /\ \/ contains(low, KW_LOGIN)
                       \/ contains(low, KW_SUBMIT)
                       \/ contains(low, KW_APPROVE)
                    /\ \/ contains(low, HAPPY_PATH)
                       \/ contains(low, SUCCESS) /\ contains(low, VALID)

\* A happy block beside a valid block with an action and no success signal.
C7_Witness ==
    /\ stage = "processed"
    /\ result.happy # <<>>
    /\ \E i \in 1..Len(result.valid) :
           /\ contains(lower(result.valid[i]), KW_LOGIN)
           /\ ~InSeq(result.valid[i], result.happy)

\* C8 (as stated): two blank lines stand between the header and the first block
\* and between consecutive blocks.
C8_TwoBlankLines ==
    (stage = "rendered" /\ result.happy # <<>>) => SeparatedBy(2)

\* C8 (amended): exactly one blank line (two line breaks) stands between the
\* header and the first block and between consecutive blocks.
C8_OneBlankLine ==
    (stage = "rendered" /\ result.happy # <<>>) => SeparatedBy(1)

\* A feature file of two blocks.
C8_Witness == stage = "rendered" /\ Len(result.happy) >= 2

\* C9: the content is the header followed by the blocks of happy in order, each
\* non-blank line after two spaces, each blank line empty; with no happy block
\* the content is the header.
C9_ContentLines ==
    stage = "rendered" =>
        /\ startswith(feature_content, feature_header)
        /\ ContentLines = splitlines(feature_header) \o ExpectedBodyLines(result.happy)
        /\ result.happy = <<>> => feature_content = feature_header

\* A feature file whose block has a whitespace-only line inside.
C9_Witness ==
    /\ stage = "rendered"
    /\ result.happy # <<>>
    /\ \E i \in 1..Len(splitlines(result.happy[1])) :
           LET line == splitlines(result.happy[1])[i]
           IN  line # <<>> /\ IsBlankLine(line)

\* C10: a click with requirements that are blank after trimming shows the
\* validation message, calls the backend not at all and yields no result,
\* summary or download; the backend is called only by a click with non-blank
\* requirements, and once.
C10_BlankRejected ==
    [][/\ (clicks' = clicks + 1 /\ IsBlankLine(requirements_text)) =>
              /\ llm_calls' = llm_calls
              /\ error_shown'
              /\ ~download_offered'
              /\ result' = NoResult
              /\ gherkin_text' = <<>>
              /\ feature_content' = <<>>
       /\ (clicks' = clicks + 1 /\ ~IsBlankLine(requirements_text)) =>
              /\ llm_calls' = llm_calls + 1
              /\ ~error_shown'
       /\ llm_calls' # llm_calls =>
              /\ clicks' = clicks + 1
              /\ ~IsBlankLine(requirements_text)
              /\ llm_calls' = llm_calls + 1]_vars

\* A blank click rejected after an answered one.
C10_Witness ==
    /\ stage = "rejected"
    /\ error_shown
    /\ clicks = 2
    /\ llm_calls = 1
    /\ \E i \in 1..Len(requirements_text) : requirements_text[i] \in Whitespace

====
